---- MODULE Spec2Model ----
(***************************************************************************)
(* A model of pylib/db.py: the per-shard worker (QueryConsumer) with its   *)
(* Connection wrapper and Cancel side channel, the fan-out of              *)
(* MultiConnection with Execute / ExecuteMerged, and the ConnectionPool.   *)
(*                                                                         *)
(* Three state machines share the module:                                  *)
(*   Spec / FairSpec : one Connection, its QueryConsumer thread, caller    *)
(*                     threads and one canceller thread;                   *)
(*   FanSpec         : MultiConnection.Submit / Wait and the executors;    *)
(*   PoolSpec        : ConnectionPool.Acquire / Release.                   *)
(* Each specification leaves the other machines' variables untouched.      *)
(***************************************************************************)
EXTENDS Integers, Sequences, FiniteSets, TLC

\* ------------------------------------------------------------------ bounds

\* Operations submitted to the one Connection of Spec (the destroy sentinel
\* included).
MaxOps == 2

\* Calls of Connection.Cancel made by the canceller thread.
MaxCancels == 1

\* Length of the execute_on_connect list of the worker.
OnConnectLen == 1

\* --------------------------------------------------------- result tables

\* A VirtualTable (or subclass) value: _contents tag, _fields, _result.
\* Python's None (a DML result, and Operation._result before SetDone) is the
\* table-shaped value NoneResult so that results stay comparable.
Table(kind, fields, rows) == [kind |-> kind, fields |-> fields, rows |-> rows]

NoneResult == Table("None", <<>>, <<>>)

QueryErrors(code, message) ==
    Table("Errors", <<"Code", "Message">>, << <<code, message>> >>)

ERR_QUERY_CANCELED == QueryErrors(2, "Query canceled")

ERR_UNKNOWN == QueryErrors(3, "Unknown problem")

\* bool(result): None is false, a table is true iff __len__ > 0.
Truthy(result) == result.kind # "None" /\ Len(result.rows) > 0

\* Driver error codes.  FatalCode is one of the default fatal_errors,
\* NonFatalCode one that is not, InterruptedCode what the server answers to a
\* statement stopped by KILL QUERY, ConnectErrCode a connect failure.
FatalCode == 2006

NonFatalCode == 1064

InterruptedCode == 1317

ConnectErrCode == 2003

FatalErrors == {1142, 1143, 1148, 2003, 2006, 2013, 2014}

\* ------------------------------------------------ worker machine: state

Ops == 1..MaxOps

VARIABLES
    \* Operation objects, indexed in submission order
    opKind,          \* GetArgs()[0]: "unsubmitted", "query", "exit", "destroy"
    opResult,        \* Operation._result
    opNotified,      \* Operation._notification
    opCanceled,      \* Operation._canceled
    \* QueryConsumer
    queue,           \* _queue
    dbh,             \* _dbh: 0 is None, else the backend connection id
    connection_info, \* connection_info: 0 is None, else the published id
    in_progress,     \* in_progress: 0 is None, else an op
    in_progress_lock,\* "free", "worker", "cancel"
    wpc,             \* position of the consumer thread in run()
    wop,             \* run()'s local op
    wres,            \* run()'s local result
    wstep,           \* index into _execute_on_connect inside _Connect, 0
                     \* outside the loop
    \* backend server, as seen through the worker's connection
    nconn,           \* connections opened so far (source of CONNECTION_ID())
    running,         \* a statement of the worker's connection is executing
    interrupted,     \* that statement was hit by KILL QUERY
    \* the thread calling Connection.Cancel
    cpc, cop, cinfo, ncancel,
    \* observations, written by no code path and read only by the properties
    hist

\* The fan-out machine (FanSpec): one MultiConnection.
VARIABLES
    hosts,      \* spec['host'] of each entry of _connections
    recv,       \* per shard, the queries its Connection.Submit was given
    fsubs,      \* the MultiConnection.Submit call being served, if any
    fphase,     \* "off", "idle", "submitted", "waited", "done"
    ops,        \* the handle returned by the last Submit
    reply,      \* per shard, the result its worker produced for that handle
    results,    \* the dictionary returned by Wait
    outcome     \* what Execute / ExecuteMerged returned or raised

fanVars == <<hosts, recv, fsubs, fphase, ops, reply, results, outcome>>

\* The pool machine (PoolSpec): one ConnectionPool and its caller threads.
VARIABLES
    open_spares,   \* _open_spares
    closed_spares, \* _closed_spares
    cvWaiters,     \* threads inside _cv.wait(), oldest first
    ppc,           \* per caller thread, its position
    pconn,         \* per caller thread, the connection it holds (0: none)
    warm,          \* per connection, whether its worker has an open handle
    phandle,       \* per caller thread, the [conn, opobj] handle it still has
    phist          \* observations read only by the properties

poolVars ==
    <<open_spares, closed_spares, cvWaiters, ppc, pconn, warm, phandle, phist>>

\* The lookup cache machine (CacheSpec): one Cache object and the clock.
VARIABLES
    now,                \* time.time()
    last_lookup_time,   \* _last_lookup_time
    last_lookup_value,  \* _last_lookup_value
    backing,            \* what _Lookup() would return at this moment
    chist               \* observations read only by the properties

cacheVars == <<now, last_lookup_time, last_lookup_value, backing, chist>>

\* The descriptor machine (ExpandSpec): one Spec and the MultiConnection
\* made from it.
VARIABLES
    descriptor,   \* the host part of the dbspec
    expansion,    \* the dictionary returned by the expander's _Lookup()
    connections,  \* the keys of MultiConnection._connections, with hosts
    ephase        \* "off", "parsed", "expanded", "connected"

expandVars == <<descriptor, expansion, connections, ephase>>

\* The table machine (TableSpec): VirtualTable objects and the list
\* objects they refer to.
VARIABLES
    tables,     \* per table, the ids of its _fields list and of its rows
    fieldheap,  \* the field-name list objects
    rowheap,    \* the row list objects
    thist       \* observations read only by the properties

tableVars == <<tables, fieldheap, rowheap, thist>>

\* The SQL dump machine (InsertSpec): one call of GetInsertSQLList.
VARIABLES
    insertArgs,  \* the table's rows and the arguments of the call
    statements   \* what the generator yielded, once it is exhausted

insertVars == <<insertArgs, statements>>

\* The result cache machine (CachedSpec): one connection object used
\* through CachedExecute and Close.
VARIABLES
    cache,   \* _cache: per post-substitution query, the stored result
    closed,  \* _closed
    xhist    \* observations read only by the properties

cachedVars == <<cache, closed, xhist>>

\* MultiConnection.__init__ and the handles of its shard workers
VARIABLES
    multiArgs,   \* the kwargs of MultiConnection: host part, db part, hooks
    mphase,      \* "new", "built", or "raised" when __init__ raised
    shardConns,  \* _connections: per key, what the shard's spec holds
    shardDbh,    \* per key, the worker's _dbh (0 for None)
    shardPos,    \* per key, the next statement of _execute_on_connect
    shardSent,   \* per key, the statements sent on the handle so far
    shardNconn   \* per key, the handles opened so far

shardVars ==
    <<multiArgs, mphase, shardConns, shardDbh, shardPos, shardSent, shardNconn>>

auxVars == <<cacheVars, expandVars, tableVars, insertVars, cachedVars, shardVars>>

opVars == <<opKind, opResult, opNotified, opCanceled>>

workerVars == <<wpc, wop, wres, wstep>>

connVars == <<dbh, connection_info, nconn>>

backVars == <<running, interrupted>>

cancVars == <<cpc, cop, cinfo, ncancel>>

connectionVars ==
    <<opVars, queue, in_progress, in_progress_lock, workerVars, connVars,
      backVars, cancVars, hist>>

vars == <<connectionVars, fanVars, poolVars, auxVars>>

exceptConnection == <<fanVars, poolVars, auxVars>>

exceptFan == <<connectionVars, poolVars, auxVars>>

exceptPool == <<connectionVars, fanVars, auxVars>>

exceptAux == <<connectionVars, fanVars, poolVars>>

exceptCache == <<exceptAux, expandVars, tableVars, insertVars, cachedVars, shardVars>>

exceptExpand == <<exceptAux, cacheVars, tableVars, insertVars, cachedVars, shardVars>>

exceptTable == <<exceptAux, cacheVars, expandVars, insertVars, cachedVars, shardVars>>

exceptInsert == <<exceptAux, cacheVars, expandVars, tableVars, cachedVars, shardVars>>

exceptCached == <<exceptAux, cacheVars, expandVars, tableVars, insertVars, shardVars>>

exceptShard ==
    <<exceptAux, cacheVars, expandVars, tableVars, insertVars, cachedVars>>

NSub == Cardinality({o \in Ops : opKind[o] # "unsubmitted"})

Deleted == \E o \in Ops : opKind[o] = "destroy"

NoWait == Table("NoWait", <<>>, <<>>)

ConnectionInit ==
    /\ opKind = [o \in Ops |-> "unsubmitted"]
    /\ opResult = [o \in Ops |-> NoneResult]
    /\ opNotified = [o \in Ops |-> FALSE]
    /\ opCanceled = [o \in Ops |-> FALSE]
    /\ queue = <<>>
    /\ dbh = 0
    /\ connection_info = 0
    /\ in_progress = 0
    /\ in_progress_lock = "free"
    /\ wpc = "get"
    /\ wop = 0
    /\ wres = NoneResult
    /\ wstep = 0
    /\ nconn = 0
    /\ running = FALSE
    /\ interrupted = FALSE
    /\ cpc = "idle"
    /\ cop = 0
    /\ cinfo = 0
    /\ ncancel = 0
    /\ hist = [setDone       |-> [o \in Ops |-> 0],
               first         |-> [o \in Ops |-> NoWait],
               sentLog       |-> <<>>,
               atBackend     |-> {},
               connFor       |-> {},
               markedQueued  |-> {},
               interruptedIn |-> [o \in Ops |-> "no"],
               raw           |-> [o \in Ops |-> NoWait],
               observed      |-> [op |-> 0, value |-> NoWait]]

\* ---------------------------------------------- worker machine: callers

\* Operation.SetDone(result), lines 382-384.
SetDone(o, result) ==
    /\ opResult' = [opResult EXCEPT ![o] = result]
    /\ opNotified' = [opNotified EXCEPT ![o] = TRUE]
    /\ hist' = [hist EXCEPT !.setDone[o] = @ + 1,
                            !.first[o] = IF opNotified[o] THEN @ ELSE result]

\* Connection.Submit(query): a new Operation is put on the worker's queue.
\* After __del__ has submitted 'destroy' the object takes no more calls.
Submit(kind) ==
    /\ NSub < MaxOps
    /\ ~Deleted
    /\ opKind' = [opKind EXCEPT ![NSub + 1] = kind]
    /\ queue' = Append(queue, NSub + 1)
    /\ UNCHANGED <<opResult, opNotified, opCanceled, in_progress,
                   in_progress_lock, workerVars, connVars, backVars, cancVars,
                   hist>>
    /\ UNCHANGED exceptConnection

\* Connection.__del__: self.Wait(self.Submit('destroy')).
Del == Submit("destroy")

\* Connection.TryWait(op) -> Operation.TryWait(): HasBeenNotified().  It
\* reads the latch and changes nothing.
TryWait(o) == opNotified[o]

\* Connection.Wait(op) -> Operation.Wait(): WaitForNotification() returns
\* once the latch has fired (that is, from when TryWait is true), and Wait
\* returns _result as it is then.  The value returned is kept in
\* hist.observed.
Wait(o) ==
    /\ opKind[o] # "unsubmitted"
    /\ TryWait(o)
    /\ hist' = [hist EXCEPT !.observed = [op |-> o, value |-> opResult[o]]]
    /\ UNCHANGED <<opVars, queue, in_progress, in_progress_lock, workerVars,
                   connVars, backVars, cancVars>>
    /\ UNCHANGED exceptConnection

\* --------------------------------------- worker machine: QueryConsumer.run

\* Queue.get() on a FIFO Queue.Queue: the oldest op and what is left.
QueuePopLifo(q) == [op |-> q[Len(q)], rest |-> SubSeq(q, 1, Len(q) - 1)]

QueuePop(q) == [op |-> Head(q), rest |-> Tail(q)]

\* Where run() goes after the sentinel branch: 'exit' continues the loop,
\* 'destroy' returns.
AfterSentinelFallThrough(kind) ==
    IF kind = "destroy" THEN "returned" ELSE "acquire"

AfterSentinel(kind) == IF kind = "destroy" THEN "returned" ELSE "get"

\* A _Close() that leaves the handle as it is.
CloseKept == UNCHANGED <<dbh, connection_info>>

\* QueryConsumer._Close(), lines 723-728.
Close ==
    IF dbh # 0
    THEN dbh' = 0 /\ connection_info' = 0
    ELSE UNCHANGED <<dbh, connection_info>>

\* Lines 632-634: an empty result of a canceled op becomes the canceled table.
HackCanceledNever(result, canceled) == result

HackCanceled(result, canceled) ==
    IF ~Truthy(result) /\ canceled THEN ERR_QUERY_CANCELED ELSE result

\* The worker has dequeued or will dequeue o but has not yet assigned
\* in_progress = o.
NotYetPublished(o) ==
    \/ \E i \in 1..Len(queue) : queue[i] = o
    \/ wop = o /\ wpc \in {"acquire", "publish"}

\* op = self._queue.get(); query = op.GetArgs()[0]; the sentinel tests.
WGet ==
    /\ wpc = "get"
    /\ queue # <<>>
    /\ LET p == QueuePop(queue) IN
        /\ queue' = p.rest
        /\ wop' = p.op
        /\ wres' = IF opKind[p.op] = "query" THEN ERR_UNKNOWN ELSE wres
        /\ wpc' = IF opKind[p.op] = "query" THEN "acquire" ELSE "ctl_close"
    /\ UNCHANGED <<opVars, in_progress, in_progress_lock, wstep, connVars,
                   backVars, cancVars, hist>>
    /\ UNCHANGED exceptConnection

\* Sentinel branch, self._Close().
WCtlClose ==
    /\ wpc = "ctl_close"
    /\ Close
    /\ wpc' = "ctl_done"
    /\ UNCHANGED <<opVars, queue, in_progress, in_progress_lock, wop, wres,
                   wstep, nconn, backVars, cancVars, hist>>
    /\ UNCHANGED exceptConnection

\* Sentinel branch, op.SetDone(None); continue / return.
WCtlDone ==
    /\ wpc = "ctl_done"
    /\ SetDone(wop, NoneResult)
    /\ wpc' = AfterSentinel(opKind[wop])
    /\ UNCHANGED <<opKind, opCanceled, queue, in_progress, in_progress_lock,
                   wop, wres, wstep, connVars, backVars, cancVars>>
    /\ UNCHANGED exceptConnection

\* An acquire() that does not wait for the lock.
WAcquireUnlocked ==
    /\ wpc = "acquire"
    /\ in_progress_lock' = "worker"
    /\ wpc' = "publish"
    /\ UNCHANGED <<opVars, queue, in_progress, wop, wres, wstep, connVars,
                   backVars, cancVars, hist>>
    /\ UNCHANGED exceptConnection

\* self.in_progress_lock.acquire()
WAcquire ==
    /\ wpc = "acquire"
    /\ in_progress_lock = "free"
    /\ in_progress_lock' = "worker"
    /\ wpc' = "publish"
    /\ UNCHANGED <<opVars, queue, in_progress, wop, wres, wstep, connVars,
                   backVars, cancVars, hist>>
    /\ UNCHANGED exceptConnection

\* self.in_progress = op
WPublish ==
    /\ wpc = "publish"
    /\ in_progress' = wop
    /\ wpc' = "release"
    /\ UNCHANGED <<opVars, queue, in_progress_lock, wop, wres, wstep, connVars,
                   backVars, cancVars, hist>>
    /\ UNCHANGED exceptConnection

\* self.in_progress_lock.release()
WRelease ==
    /\ wpc = "release"
    /\ in_progress_lock' = "free"
    /\ wpc' = "iscanceled"
    /\ UNCHANGED <<opVars, queue, in_progress, wop, wres, wstep, connVars,
                   backVars, cancVars, hist>>
    /\ UNCHANGED exceptConnection

\* if op.IsCanceled(): result = _ERR_QUERY_CANCELED; else _Execute(query),
\* whose first test is "if not self._dbh".
WIsCanceled ==
    /\ wpc = "iscanceled"
    /\ IF opCanceled[wop]
       THEN wres' = ERR_QUERY_CANCELED /\ wpc' = "clear"
       ELSE wres' = wres /\ wpc' = IF dbh = 0 THEN "resolve" ELSE "query_start"
    /\ UNCHANGED <<opVars, queue, in_progress, in_progress_lock, wop, wstep,
                   connVars, backVars, cancVars, hist>>
    /\ UNCHANGED exceptConnection

\* ------------------------------------ worker machine: QueryConsumer._Execute

\* "return r" from _Execute into "result = self._Execute(query)" of run().
ExecReturn(r) ==
    /\ wres' = r
    /\ wpc' = "hack"

\* What the statement "return QueryErrors(fields, ((4, str(e))))" of the
\* "except Exception" handler of the query does (line 698).  The rows
\* argument is the pair (4, str(e)) itself, so VirtualTable.__init__ calls
\* Append(4), whose len(row) raises TypeError inside the handler: no table is
\* built and the exception leaves _Execute.
QueryExceptionHandler == "raise"

\* The results a statement that ran to its natural end can produce
\* (lines 665-699): a table with rows, None for a statement that returns
\* no data, an empty Warnings table.
NaturalResults ==
    { Table("Rows", <<"x">>, << <<1>> >>),
      NoneResult,
      Table("Warnings", <<"Level", "Code", "Message">>, <<>>) }

\* What the driver hands back for a statement stopped by KILL QUERY when it
\* swallows the server's error: no data.
SwallowedResults == { NoneResult, Table("Rows", <<"x">>, <<>>) }

\* self._resolver(): lines 643-651.
WResolve ==
    /\ wpc = "resolve"
    /\ \/ /\ ExecReturn(QueryErrors(1, "resolution"))
          /\ hist' = [hist EXCEPT !.raw[wop] = QueryErrors(1, "resolution")]
       \/ /\ wpc' = "connect"
          /\ UNCHANGED <<wres, hist>>
    /\ UNCHANGED <<opVars, queue, in_progress, in_progress_lock, wop, wstep,
                   connVars, backVars, cancVars>>
    /\ UNCHANGED exceptConnection

\* self._Connect(args) up to the assignment of connection_info (lines
\* 701-718), with the two handlers of lines 654-661.  MySQLdb.connect has not
\* returned when it fails, so _dbh is None and _Close() changes nothing.
WConnect ==
    /\ wpc = "connect"
    /\ \/ \E r \in {QueryErrors(ConnectErrCode, "connect"),
                    QueryErrors(3, "connect")} :
            /\ ExecReturn(r)
            /\ hist' = [hist EXCEPT !.connFor = @ \cup {wop}, !.raw[wop] = r]
            /\ UNCHANGED <<connVars, wstep>>
       \/ /\ nconn' = nconn + 1
          /\ dbh' = nconn + 1
          /\ connection_info' = nconn + 1
          /\ wstep' = IF OnConnectLen = 0 THEN 0 ELSE 1
          /\ wpc' = IF OnConnectLen = 0 THEN "query_start" ELSE "onconnect_start"
          /\ wres' = wres
          /\ hist' = [hist EXCEPT !.connFor = @ \cup {wop}]
    /\ UNCHANGED <<opVars, queue, in_progress, in_progress_lock, wop,
                   backVars, cancVars>>
    /\ UNCHANGED exceptConnection

\* self._dbh.query(init_query) is sent (line 721).
WOnConnectStart ==
    /\ wpc = "onconnect_start"
    /\ running' = TRUE
    /\ wpc' = "onconnect_wait"
    /\ UNCHANGED <<opVars, queue, in_progress, in_progress_lock, wop, wres,
                   wstep, connVars, interrupted, cancVars, hist>>
    /\ UNCHANGED exceptConnection

\* self._dbh.query(init_query) comes back: normally, or with an
\* OperationalError (handler of line 654: _Close, the driver's code), or with
\* another exception (handler of line 658: _Close, code 3).  A statement hit
\* by KILL QUERY comes back with the server's error, or normally when the
\* driver swallows it.
WOnConnectWait ==
    /\ wpc = "onconnect_wait"
    /\ running' = FALSE
    /\ interrupted' = FALSE
    /\ \/ /\ wstep' = IF wstep < OnConnectLen THEN wstep + 1 ELSE 0
          /\ wpc' = IF wstep < OnConnectLen THEN "onconnect_start" ELSE "query_start"
          /\ UNCHANGED <<wres, dbh, connection_info, hist>>
       \/ \E r \in IF interrupted
                   THEN {QueryErrors(InterruptedCode, "interrupted")}
                   ELSE {QueryErrors(ConnectErrCode, "connect"),
                         QueryErrors(3, "connect")} :
            /\ Close
            /\ ExecReturn(r)
            /\ hist' = [hist EXCEPT !.raw[wop] = r]
            /\ wstep' = 0
    /\ UNCHANGED <<opVars, queue, in_progress, in_progress_lock, wop, nconn,
                   cancVars>>
    /\ UNCHANGED exceptConnection

\* self._dbh.query(query) is sent (line 664).
WQueryStart ==
    /\ wpc = "query_start"
    /\ running' = TRUE
    /\ wpc' = "query_wait"
    /\ hist' = [hist EXCEPT !.sentLog = Append(@, wop),
                            !.atBackend = @ \cup {wop}]
    /\ UNCHANGED <<opVars, queue, in_progress, in_progress_lock, wop, wres,
                   wstep, connVars, interrupted, cancVars>>
    /\ UNCHANGED exceptConnection

\* The query comes back (lines 664-699).
WQueryWait ==
    /\ wpc = "query_wait"
    /\ running' = FALSE
    /\ interrupted' = FALSE
    /\ \/ \E r \in IF interrupted THEN SwallowedResults ELSE NaturalResults :
            /\ ExecReturn(r)
            /\ hist' = [hist EXCEPT !.raw[wop] = r, !.atBackend = @ \ {wop}]
            /\ UNCHANGED <<dbh, connection_info>>
       \/ \E code \in IF interrupted THEN {InterruptedCode}
                                     ELSE {FatalCode, NonFatalCode} :
            \* except MySQLdb.Error (lines 690-695)
            /\ IF code \in FatalErrors THEN Close
                                       ELSE UNCHANGED <<dbh, connection_info>>
            /\ ExecReturn(QueryErrors(code, "driver"))
            /\ hist' = [hist EXCEPT !.raw[wop] = QueryErrors(code, "driver"),
                                    !.atBackend = @ \ {wop}]
       \/ \* except Exception (lines 696-698)
          /\ ~interrupted
          /\ wpc' = QueryExceptionHandler
          /\ hist' = [hist EXCEPT !.atBackend = @ \ {wop}]
          /\ UNCHANGED <<wres, dbh, connection_info>>
    /\ UNCHANGED <<opVars, queue, in_progress, in_progress_lock, wop, wstep,
                   nconn, cancVars>>
    /\ UNCHANGED exceptConnection

\* if not result and op.IsCanceled(): result = _ERR_QUERY_CANCELED
WHack ==
    /\ wpc = "hack"
    /\ wres' = HackCanceled(wres, opCanceled[wop])
    /\ wpc' = "clear"
    /\ UNCHANGED <<opVars, queue, in_progress, in_progress_lock, wop, wstep,
                   connVars, backVars, cancVars, hist>>
    /\ UNCHANGED exceptConnection

\* A worker that takes in_progress_lock for the clearing write.
WClearLocked ==
    /\ wpc = "clear"
    /\ in_progress_lock = "free"
    /\ in_progress' = 0
    /\ wpc' = "setdone"
    /\ UNCHANGED <<opVars, queue, in_progress_lock, wop, wres, wstep, connVars,
                   backVars, cancVars, hist>>
    /\ UNCHANGED exceptConnection

\* self.in_progress = None (line 635, outside the lock)
WClear ==
    /\ wpc = "clear"
    /\ in_progress' = 0
    /\ wpc' = "setdone"
    /\ UNCHANGED <<opVars, queue, in_progress_lock, wop, wres, wstep, connVars,
                   backVars, cancVars, hist>>
    /\ UNCHANGED exceptConnection

\* finally: op.SetDone(result), then the next iteration of the loop.
WSetDone ==
    /\ wpc = "setdone"
    /\ SetDone(wop, wres)
    /\ wpc' = "get"
    /\ UNCHANGED <<opKind, opCanceled, queue, in_progress, in_progress_lock,
                   wop, wres, wstep, connVars, backVars, cancVars>>
    /\ UNCHANGED exceptConnection

\* finally: op.SetDone(result) while an exception leaves the try block; the
\* exception then leaves run() and the consumer thread ends.
WRaise ==
    /\ wpc = "raise"
    /\ SetDone(wop, wres)
    /\ wpc' = "dead"
    /\ UNCHANGED <<opKind, opCanceled, queue, in_progress, in_progress_lock,
                   wop, wres, wstep, connVars, backVars, cancVars>>
    /\ UNCHANGED exceptConnection

Worker ==
    \/ WGet \/ WCtlClose \/ WCtlDone
    \/ WAcquire \/ WPublish \/ WRelease \/ WIsCanceled
    \/ WResolve \/ WConnect \/ WOnConnectStart \/ WOnConnectWait
    \/ WQueryStart \/ WQueryWait
    \/ WHack \/ WClear \/ WSetDone \/ WRaise

\* -------------------------------------- worker machine: Connection.Cancel
\* The locals op and connection_info of Cancel are cop and cinfo; they are
\* reset to 0 when they go out of use.

\* Cancel(op) is entered by the canceller thread (line 758).
CCall(o) ==
    /\ cpc = "idle"
    /\ ncancel < MaxCancels
    /\ opKind[o] \in {"query", "exit"}
    /\ cop' = o
    /\ cpc' = "lock"
    /\ ncancel' = ncancel + 1
    /\ UNCHANGED <<opVars, queue, in_progress, in_progress_lock, workerVars,
                   connVars, backVars, cinfo, hist>>
    /\ UNCHANGED exceptConnection

\* with self._consumer.in_progress_lock:
CLock ==
    /\ cpc = "lock"
    /\ in_progress_lock = "free"
    /\ in_progress_lock' = "cancel"
    /\ cpc' = "mark"
    /\ UNCHANGED <<opVars, queue, in_progress, workerVars, connVars, backVars,
                   cop, cinfo, ncancel, hist>>
    /\ UNCHANGED exceptConnection

\* op.MarkCanceled()
CMark ==
    /\ cpc = "mark"
    /\ opCanceled' = [opCanceled EXCEPT ![cop] = TRUE]
    /\ cpc' = "check"
    /\ hist' = IF NotYetPublished(cop)
               THEN [hist EXCEPT !.markedQueued = @ \cup {cop}]
               ELSE hist
    /\ UNCHANGED <<opKind, opResult, opNotified, queue, in_progress,
                   in_progress_lock, workerVars, connVars, backVars, cop,
                   cinfo, ncancel>>
    /\ UNCHANGED exceptConnection

\* A Cancel that returns after MarkCanceled whatever in_progress is.
CCheckReturns ==
    /\ cpc = "check"
    /\ cpc' = "idle" /\ in_progress_lock' = "free" /\ cop' = 0
    /\ UNCHANGED <<opVars, queue, in_progress, workerVars, connVars, backVars,
                   cinfo, ncancel, hist>>
    /\ UNCHANGED exceptConnection

\* if self._consumer.in_progress != op: return
CCheck ==
    /\ cpc = "check"
    /\ IF in_progress # cop
       THEN cpc' = "idle" /\ in_progress_lock' = "free" /\ cop' = 0
       ELSE cpc' = "loop" /\ in_progress_lock' = in_progress_lock /\ cop' = cop
    /\ UNCHANGED <<opVars, queue, in_progress, workerVars, connVars, backVars,
                   cinfo, ncancel, hist>>
    /\ UNCHANGED exceptConnection

\* while not op.TryWait():
CLoop ==
    /\ cpc = "loop"
    /\ IF TryWait(cop)
       THEN cpc' = "idle" /\ in_progress_lock' = "free" /\ cop' = 0
       ELSE cpc' = "info" /\ in_progress_lock' = in_progress_lock /\ cop' = cop
    /\ UNCHANGED <<opVars, queue, in_progress, workerVars, connVars, backVars,
                   cinfo, ncancel, hist>>
    /\ UNCHANGED exceptConnection

\* connection_info = self._consumer.connection_info; without one, sleep and
\* go round the loop.
CInfo ==
    /\ cpc = "info"
    /\ cinfo' = connection_info
    /\ cpc' = IF connection_info = 0 THEN "loop" ELSE "kill"
    /\ UNCHANGED <<opVars, queue, in_progress, in_progress_lock, workerVars,
                   connVars, backVars, cop, ncancel, hist>>
    /\ UNCHANGED exceptConnection

\* The side channel (lines 775-781): connect, KILL QUERY <id>, close, sleep.
\* The side channel may fail (MySQLdb.Error, logged), the server may not act
\* on the KILL, or the statement running on connection <id> is interrupted.
CKill ==
    /\ cpc = "kill"
    /\ cpc' = "loop"
    /\ cinfo' = 0
    /\ \/ UNCHANGED <<interrupted, hist>>
       \/ /\ running
          /\ dbh = cinfo
          /\ interrupted' = TRUE
          /\ hist' = [hist EXCEPT !.interruptedIn[wop] =
                        IF wpc = "onconnect_wait" THEN "onconnect" ELSE "query"]
    /\ UNCHANGED <<opVars, queue, in_progress, in_progress_lock, workerVars,
                   connVars, running, cop, ncancel>>
    /\ UNCHANGED exceptConnection

Canceller ==
    \/ \E o \in Ops : CCall(o)
    \/ CLock \/ CMark \/ CCheck \/ CLoop \/ CInfo \/ CKill

\* ------------------------------------------ worker machine: specification

Callers ==
    \/ \E kind \in {"query", "exit"} : Submit(kind)
    \/ Del
    \/ \E o \in Ops : Wait(o)

ConnectionNext == Callers \/ Worker \/ Canceller

\* The machines a specification does not run stay in these states.
FanIdle ==
    /\ hosts = <<>>
    /\ recv = <<>>
    /\ fsubs = <<>>
    /\ fphase = "off"
    /\ ops = <<>>
    /\ reply = <<>>
    /\ results = <<>>
    /\ outcome = <<>>

PoolIdle ==
    /\ open_spares = <<>>
    /\ closed_spares = <<>>
    /\ cvWaiters = <<>>
    /\ ppc = <<>>
    /\ pconn = <<>>
    /\ warm = <<>>
    /\ phandle = <<>>
    /\ phist = <<>>

CacheIdle ==
    /\ now = 0
    /\ last_lookup_time = 0
    /\ last_lookup_value = 0
    /\ backing = 0
    /\ chist = <<>>

ExpandIdle ==
    /\ descriptor = <<>>
    /\ expansion = <<>>
    /\ connections = <<>>
    /\ ephase = "off"

TableIdle ==
    /\ tables = <<>>
    /\ fieldheap = <<>>
    /\ rowheap = <<>>
    /\ thist = <<>>

InsertIdle ==
    /\ insertArgs = <<>>
    /\ statements = <<>>

CachedIdle ==
    /\ cache = <<>>
    /\ closed = FALSE
    /\ xhist = <<>>

ShardIdle ==
    /\ multiArgs = <<>>
    /\ mphase = "off"
    /\ shardConns = <<>>
    /\ shardDbh = <<>>
    /\ shardPos = <<>>
    /\ shardSent = <<>>
    /\ shardNconn = <<>>

AuxIdle ==
    /\ CacheIdle /\ ExpandIdle /\ TableIdle /\ InsertIdle /\ CachedIdle
    /\ ShardIdle

Init == ConnectionInit /\ FanIdle /\ PoolIdle /\ AuxIdle

Next == ConnectionNext

Spec == Init /\ [][Next]_vars

\* The operating system schedules the consumer thread and the canceller
\* whenever they can run, and every statement sent to the backend returns.
FairSpec == Spec /\ WF_vars(Worker) /\ WF_vars(Canceller)

\* ------------------------------------------ worker machine: properties

Submitted(o) == opKind[o] # "unsubmitted"

SentOps == {hist.sentLog[i] : i \in 1..Len(hist.sentLog)}

\* C1: every operation submitted to the worker (none can follow the
\* 'destroy' sentinel, which __del__ submits last) eventually has its latch
\* fired, whatever happened to the operations queued before it.
C1_EveryOpCompletes == \A o \in Ops : Submitted(o) ~> opNotified[o]

\* C2: SetDone is performed at most once per operation: the latch is set
\* exactly when SetDone has run once, the result slot still holds what that
\* SetDone wrote, and the value a Wait returned is the value the slot holds.
C2_SetDoneOnce ==
    /\ \A o \in Ops :
        /\ hist.setDone[o] <= 1
        /\ opNotified[o] <=> hist.setDone[o] = 1
        /\ opNotified[o] => opResult[o] = hist.first[o]
    /\ hist.observed.op # 0 =>
        /\ opNotified[hist.observed.op]
        /\ hist.observed.value = opResult[hist.observed.op]

\* A Wait has returned the result of an operation that Cancel was called on.
C2_Witness ==
    /\ hist.observed.op # 0
    /\ opCanceled[hist.observed.op]
    /\ opKind[hist.observed.op] = "query"

\* C3: operations of one worker run one at a time and in submission order:
\* at most one query is at the backend, while the query of op b is at the
\* backend every op submitted before b has completed, and queries reach the
\* backend in submission order.
C3_SerialInOrder ==
    /\ Cardinality(hist.atBackend) <= 1
    /\ \A b \in hist.atBackend : \A a \in 1..(b - 1) : opNotified[a]
    /\ \A i, j \in 1..Len(hist.sentLog) :
        i < j => hist.sentLog[i] < hist.sentLog[j]

\* The queries of two operations have reached the backend.
C3_Witness == Len(hist.sentLog) >= 2

\* The part of C4 that a finite run can break: an op marked canceled before
\* the worker published it is never sent, has no connection opened for it,
\* and can complete only with the canceled table.
C4_NeverSent ==
    \A o \in hist.markedQueued :
        opKind[o] = "query" =>
            /\ o \notin SentOps
            /\ o \notin hist.connFor
            /\ opNotified[o] => opResult[o] = ERR_QUERY_CANCELED

\* C4: if Cancel(op) marks op canceled while op is still queued (the worker
\* has not yet published it as in_progress), op's query is never sent to the
\* backend, no connection is opened on its behalf, and op completes with the
\* canonical Errors table (2, 'Query canceled').
C4_CancelQueued ==
    /\ []C4_NeverSent
    /\ \A o \in Ops :
        (o \in hist.markedQueued /\ opKind[o] = "query")
            ~> (opNotified[o] /\ opResult[o] = ERR_QUERY_CANCELED)

NShards == 3

\* MultiConnection.__init__ keys _connections by enumerate(): 0..N-1.
Shards == 0..(NShards - 1)

\* Host strings; shard s of a descriptor gets HostNames[s + 1], or, in a
\* host list that names one host twice, the same string as its neighbour.
HostName(s) ==
    CASE s = 0 -> "h0" [] s = 1 -> "h1" [] s = 2 -> "h2" [] s = 3 -> "h3"
      [] OTHER -> "h4"

HostMaps ==
    { [s \in Shards |-> HostName(s)],
      [s \in Shards |-> IF s = 1 THEN HostName(0) ELSE HostName(s)] }

\* A query string, as far as _SHARD_RE can tell queries apart: the words
\* before the shard list, the shard list (the [\d,]+ group, split on ','),
\* and the rest.  'SELECT 1' has no leading words and no list.
Query(pre, nums, body) == [pre |-> pre, nums |-> nums, body |-> body]

FanQueries ==
    { Query(<<>>, <<>>, "SELECT"),
      Query(<<"ON", "SHARD">>, <<0>>, "SELECT"),
      Query(<<"ON", "SHARD">>, <<0, 2>>, "SELECT"),
      Query(<<"ON", "SHARD">>, <<1, 1>>, "SELECT"),
      Query(<<"on", "shard">>, <<2>>, "SELECT"),
      Query(<<"ON", "SHARD">>, <<1, NShards>>, "SELECT"),
      Query(<<"ON", "SHARD">>, <<>>, "x SELECT") }

\* re.IGNORECASE on the two keywords.
Lower(w) == CASE w = "ON" -> "on" [] w = "SHARD" -> "shard" [] OTHER -> w

\* _SHARD_RE.match(query): ^\s*ON\s+SHARD\s+([\d,]+)\s+(.*)$
ShardMatch(q) ==
    /\ Len(q.pre) = 2
    /\ Lower(q.pre[1]) = "on"
    /\ Lower(q.pre[2]) = "shard"
    /\ Len(q.nums) > 0

\* shards = [int(shard) for ...] on a match, self._connections.keys() else.
SelectedAll(q) == Shards

Selected(q) ==
    IF ShardMatch(q) THEN {q.nums[i] : i \in 1..Len(q.nums)} ELSE Shards

\* query = shard_match.group('query') on a match.
Stripped(q) == IF ShardMatch(q) THEN Query(<<>>, <<>>, q.body) ELSE q

\* The loop of lines 822-826 over self._connections.iteritems() (ascending
\* for the small integer keys 0..N-1), from shard s on: the handle.
RECURSIVE SubmitFrom(_, _, _)
SubmitFrom(s, q, hs) ==
    IF s >= NShards THEN <<>>
    ELSE (IF s \in Selected(q)
          THEN <<[name |-> hs[s], shard |-> s, query |-> Stripped(q)]>>
          ELSE <<>>) \o SubmitFrom(s + 1, q, hs)

\* connection.Submit(query) of line 825, seen from worker s: the queries
\* one MultiConnection.Submit puts on its queue.
Delivered(os, s) ==
    LET mine == SelectSeq(os, LAMBDA o : o.shard = s)
    IN  [i \in 1..Len(mine) |-> mine[i].query]

\* MultiConnection.Wait(ops): results[name] = connection.Wait(op).values()[0],
\* a later op of the same name replacing an earlier one.
RECURSIVE WaitFrom(_, _, _)
WaitFrom(i, os, rp) ==
    IF i > Len(os) THEN <<>>
    ELSE LET rest == WaitFrom(i + 1, os, rp) IN
         IF \E j \in 1..Len(rest) : rest[j].name = os[i].name
         THEN rest
         ELSE <<[name |-> os[i].name, result |-> rp[os[i].shard]]>> \o rest

\* The results the shards of FanSpec produce.
FanResults ==
    { NoneResult,
      Table("Rows", <<"a">>, <<>>),
      Table("Rows", <<"a">>, << <<1>> >>),
      Table("Rows", <<"b">>, <<>>),
      Table("Rows", <<"b">>, << <<1>> >>),
      QueryErrors(NonFatalCode, "driver"),
      Table("Warnings", <<"Level", "Code", "Message">>, <<>>) }

\* zip(self._fields, row)
Zip(fields, row) ==
    [i \in 1..(IF Len(fields) < Len(row) THEN Len(fields) ELSE Len(row))
        |-> <<fields[i], row[i]>>]

\* str(result): 'None' for None; for a table VirtualTable.__str__, which
\* prints _contents, the row count, and for each row its "field: value"
\* lines.  The field names appear only through the rows.
Str(t) ==
    IF t.kind = "None" THEN <<"None">>
    ELSE <<t.kind, Len(t.rows), [i \in 1..Len(t.rows) |-> Zip(t.fields, t.rows[i])]>>

\* VirtualTable.__eq__ (None == None for two None results).
TableEq(x, y) == x.kind = y.kind /\ x.fields = y.fields /\ x.rows = y.rows

Returned(value) == [tag |-> "return", exc |-> "", value |-> value]

Raised(exc, value) == [tag |-> "raise", exc |-> exc, value |-> value]

\* _BaseConnection.Execute after MultiExecute: the outcomes it can have,
\* rs being the entries of the results dictionary as [name, result].
\* results.popitem() hands back an arbitrary entry.
ExecuteOutcomes(rs) ==
    IF Cardinality({Str(rs[i].result) : i \in 1..Len(rs)}) = 1
    THEN {Returned(rs[i].result) : i \in 1..Len(rs)}
    ELSE {Raised("InconsistentResponses", NoneResult)}

\* VirtualTable.AddField(name, value) on a table without that field.
AddField(t, name, value) ==
    Table(t.kind, Append(t.fields, name),
          [i \in 1..Len(t.rows) |-> Append(t.rows[i], value)])

\* VirtualTable.Merge(table), the field lists being equal.
Merge(t, table) == Table(t.kind, t.fields, t.rows \o table.rows)

\* The loop of ExecuteMerged (lines 500-521) from entry i of the visiting
\* order on, merged being the table built so far (None at the start).
RECURSIVE MergeFrom(_, _, _)
MergeFrom(i, order, merged) ==
    IF i > Len(order) THEN Returned(merged)
    ELSE
    LET host == order[i].name
        result == order[i].result
    IN  IF result.kind = "Errors" THEN Raised("QueryErrorsException", result)
        ELSE IF result.kind = "Warnings"
        THEN Raised("QueryWarningsException", result)
        ELSE IF ~Truthy(result) /\ ~Truthy(merged)
        THEN MergeFrom(i + 1, order, merged)
        ELSE IF result.kind = "None" THEN Raised("AttributeError", NoneResult)
        ELSE IF \E k \in 1..Len(result.fields) : result.fields[k] = "host"
        THEN Raised("ValueError", NoneResult)
        ELSE
        LET added == AddField(result, "host", host)
        IN  IF Truthy(merged) /\ added.fields # merged.fields
            THEN Raised("InconsistentSchema", NoneResult)
            ELSE MergeFrom(i + 1, order,
                     Merge(IF Truthy(merged) THEN merged
                           ELSE Table("Rows", added.fields, <<>>), added))

\* results.iteritems(): the entries in some order the dictionary chooses.
Orders(rs) ==
    LET n == Len(rs)
        perms == {p \in [1..n -> 1..n] : \A i, j \in 1..n : p[i] = p[j] => i = j}
    IN  {[i \in 1..n |-> rs[p[i]]] : p \in perms}

ExecuteMergedOutcomes(rs) == {MergeFrom(1, order, NoneResult) : order \in Orders(rs)}

NoOutcome == [by |-> "", tag |-> "none", exc |-> "", value |-> NoWait]

By(name, o) == [by |-> name, tag |-> o.tag, exc |-> o.exc, value |-> o.value]

NoReply == [s \in Shards |-> NoWait]

\* MultiConnection.__init__: one worker per shard of the descriptor.
FanStart ==
    /\ hosts \in HostMaps
    /\ recv = [s \in Shards |-> <<>>]
    /\ fsubs = <<>>
    /\ fphase = "idle"
    /\ ops = <<>>
    /\ reply = NoReply
    /\ results = <<>>
    /\ outcome = NoOutcome

\* MultiConnection.Submit(query)
FSubmit(q) ==
    /\ fphase \in {"idle", "done"}
    /\ LET os == SubmitFrom(0, q, hosts)
           got == [s \in Shards |-> Delivered(os, s)]
       IN  /\ ops' = os
           /\ recv' = [s \in Shards |-> recv[s] \o got[s]]
           /\ fsubs' = <<[query |-> q, got |-> got]>>
    /\ fphase' = "submitted"
    /\ reply' = NoReply
    /\ results' = <<>>
    /\ outcome' = NoOutcome
    /\ UNCHANGED <<hosts, exceptFan>>

\* Worker s takes the query at the head of its queue and completes its
\* operation with result r.
FReply(s, r) ==
    /\ fphase = "submitted"
    /\ recv[s] # <<>>
    /\ recv' = [recv EXCEPT ![s] = Tail(recv[s])]
    /\ reply' = [reply EXCEPT ![s] = r]
    /\ UNCHANGED <<hosts, fsubs, fphase, ops, results, outcome>>
    /\ UNCHANGED exceptFan

\* MultiConnection.Wait(ops), once every operation of ops is done.
FWait ==
    /\ fphase = "submitted"
    /\ \A s \in Shards : recv[s] = <<>>
    /\ results' = WaitFrom(1, ops, reply)
    /\ fphase' = "waited"
    /\ UNCHANGED <<hosts, recv, fsubs, ops, reply, outcome>>
    /\ UNCHANGED exceptFan

\* _BaseConnection.Execute, after its MultiExecute.
FExecute ==
    /\ fphase = "waited"
    /\ \E o \in ExecuteOutcomes(results) : outcome' = By("Execute", o)
    /\ fphase' = "done"
    /\ UNCHANGED <<hosts, recv, fsubs, ops, reply, results>>
    /\ UNCHANGED exceptFan

\* _BaseConnection.ExecuteMerged, after its MultiExecute.
FExecuteMerged ==
    /\ fphase = "waited"
    /\ \E o \in ExecuteMergedOutcomes(results) : outcome' = By("ExecuteMerged", o)
    /\ fphase' = "done"
    /\ UNCHANGED <<hosts, recv, fsubs, ops, reply, results>>
    /\ UNCHANGED exceptFan

FanNext ==
    \/ \E q \in FanQueries : FSubmit(q)
    \/ \E s \in Shards, r \in FanResults : FReply(s, r)
    \/ FWait
    \/ FExecute
    \/ FExecuteMerged

FanInit == ConnectionInit /\ FanStart /\ PoolIdle /\ AuxIdle

FanSpec == FanInit /\ [][FanNext]_vars

\* ------------------------------------------------------------ C6 .. C9

\* The query 'ON SHARD s1,...,sk Q' with every index valid.
PrefixedValid(q) ==
    /\ q.pre = <<"ON", "SHARD">>
    /\ Len(q.nums) > 0
    /\ \A i \in 1..Len(q.nums) : q.nums[i] \in Shards

\* A query that does not start with the words ON SHARD.
Unprefixed(q) == q.pre = <<>> /\ q.nums = <<>>

\* C6: MultiConnection.Submit dispatches exactly one operation to each
\* selected shard and none to any other.  For 'ON SHARD s1,...,sk Q' with
\* valid indices, shards s1..sk each receive Q (prefix stripped) once and
\* no other shard receives anything; for a query without the prefix every
\* shard receives the unmodified query once.
C6_DispatchExact ==
    \A i \in 1..Len(fsubs) :
        LET q == fsubs[i].query
            got == fsubs[i].got
            listed == {q.nums[k] : k \in 1..Len(q.nums)}
        IN  /\ PrefixedValid(q) =>
                \A s \in Shards :
                    got[s] = IF s \in listed
                             THEN <<[pre |-> <<>>, nums |-> <<>>, body |-> q.body]>>
                             ELSE <<>>
            /\ Unprefixed(q) => \A s \in Shards : got[s] = <<q>>

\* A prefixed query naming two shards was dispatched, another shard was
\* left out, and both operations have been waited for.
C6_Witness ==
    /\ fphase = "waited"
    /\ \E i \in 1..Len(fsubs) :
           /\ PrefixedValid(fsubs[i].query)
           /\ Len(fsubs[i].query.nums) = 2
           /\ \E s, t \in Shards : fsubs[i].got[s] # <<>> /\ fsubs[i].got[t] = <<>>
           /\ Len(results) = 2

\* C7: Execute returns a result only if every shard's result is equal
\* (same kind, same ordered fields, same ordered rows), and raises
\* InconsistentResponses whenever two results are not equal.
C7_ExecuteEnforcesEqual ==
    outcome.by = "Execute" =>
        LET allEqual == \A i, j \in 1..Len(results) :
                            TableEq(results[i].result, results[j].result)
        IN  /\ outcome.tag = "return" => allEqual
            /\ ~allEqual => /\ outcome.tag = "raise"
                            /\ outcome.exc = "InconsistentResponses"

NonEmpty(rs) == {i \in 1..Len(rs) : Truthy(rs[i].result)}

NoErrorsOrWarnings(rs) ==
    \A i \in 1..Len(rs) : rs[i].result.kind \notin {"Errors", "Warnings"}

\* The rows of the non-empty results, each extended with its host.
HostRows(rs) ==
    UNION {{Append(rs[i].result.rows[k], rs[i].name) :
                k \in 1..Len(rs[i].result.rows)} : i \in NonEmpty(rs)}

\* C8: in ExecuteMerged an empty result (None, or a table with no rows)
\* contributes nothing.  When no result is Errors or Warnings and the
\* non-empty results agree on their fields, the call returns the merge of
\* the non-empty results, each row extended with its host, whatever the
\* visiting order.
C8_EmptyContributesNothing ==
    (/\ outcome.by = "ExecuteMerged"
     /\ NoErrorsOrWarnings(results)
     /\ \A i, j \in NonEmpty(results) :
            results[i].result.fields = results[j].result.fields)
    => /\ outcome.tag = "return"
       /\ NonEmpty(results) # {} =>
            /\ \A i \in NonEmpty(results) :
                   outcome.value.fields = Append(results[i].result.fields, "host")
            /\ {outcome.value.rows[k] : k \in 1..Len(outcome.value.rows)}
                   = HostRows(results)
            /\ Len(outcome.value.rows) = Cardinality(HostRows(results))

\* C9: whenever some result is an Errors (Warnings) table, ExecuteMerged
\* raises QueryErrorsException (QueryWarningsException) carrying such a
\* table, and neither returns nor raises anything else.
C9_TypedExceptionOnly ==
    (/\ outcome.by = "ExecuteMerged"
     /\ ~NoErrorsOrWarnings(results))
    => /\ outcome.tag = "raise"
       /\ \/ outcome.exc = "QueryErrorsException" /\ outcome.value.kind = "Errors"
          \/ outcome.exc = "QueryWarningsException" /\ outcome.value.kind = "Warnings"
       /\ \E i \in 1..Len(results) : results[i].result = outcome.value

\* ============================================================ pool

\* Caller threads of the pool.
NCallers == 3

\* Releases of connections beyond one per Acquire, in one behaviour.
MaxExtraReleases == 1

\* max_open of ConnectionPool.__init__.
MaxOpen == 2

\* max_open_unused of ConnectionPool.__init__.
MaxOpenUnused == 1

PoolCallers == 1..NCallers

\* The Connection objects the constructor creates, one per xrange(max_open).
Conns == 1..MaxOpen

CheckedOut == {c \in PoolCallers : pconn[c] # 0}

\* A caller's handle: none, or the connection of [conn, opobj] (0: none)
\* and whether Cancel was called on it.
NoHandle == [conn |-> 0, canceled |-> FALSE]

\* The connections on the two lists.
Spares == open_spares \o closed_spares

\* The idle connections whose worker has an open backend handle.
WarmIdle == {k \in Conns : warm[k] /\ \E i \in 1..Len(Spares) : Spares[i] = k}

\* ConnectionPool.__init__: every connection starts in _closed_spares,
\* and no worker has connected yet.
PoolStart ==
    /\ open_spares = <<>>
    /\ closed_spares = [i \in 1..MaxOpen |-> i]
    /\ cvWaiters = <<>>
    /\ ppc = [c \in PoolCallers |-> "idle"]
    /\ pconn = [c \in PoolCallers |-> 0]
    /\ warm = [k \in Conns |-> FALSE]
    /\ phandle = [c \in PoolCallers |-> NoHandle]
    /\ phist = [blocked |-> [c \in PoolCallers |-> FALSE],
                issuedFull |-> [c \in PoolCallers |-> FALSE],
                lastRelease |-> [full |-> FALSE, closed |-> FALSE]]

\* list.pop(): the last element, and the list without it.
ButLastKept(spares) == spares

ButLast(spares) == SubSeq(spares, 1, Len(spares) - 1)

Last(spares) == spares[Len(spares)]

\* A caller thread calls Acquire() (it has not taken _cv yet), dropping
\* the handle of its previous operation.
PAcquire(c) ==
    /\ ppc[c] = "idle"
    /\ ppc' = [ppc EXCEPT ![c] = "enter"]
    /\ phandle' = [phandle EXCEPT ![c] = NoHandle]
    /\ LET full == Cardinality(CheckedOut) = MaxOpen
       IN  phist' = [phist EXCEPT !.blocked[c] = full, !.issuedFull[c] = full]
    /\ UNCHANGED <<open_spares, closed_spares, cvWaiters, pconn, warm>>
    /\ UNCHANGED exceptPool

\* Acquire() holding _cv, on entry or after being notified: the while
\* test, then either _cv.wait() or the pop and return.
PEnter(c) ==
    /\ ppc[c] \in {"enter", "woken"}
    /\ IF open_spares = <<>> /\ closed_spares = <<>>
       THEN /\ cvWaiters' = Append(cvWaiters, c)
            /\ ppc' = [ppc EXCEPT ![c] = "waiting"]
            /\ UNCHANGED <<open_spares, closed_spares, pconn>>
       ELSE /\ IF open_spares # <<>>
               THEN /\ pconn' = [pconn EXCEPT ![c] = Last(open_spares)]
                    /\ open_spares' = ButLast(open_spares)
                    /\ UNCHANGED closed_spares
               ELSE /\ pconn' = [pconn EXCEPT ![c] = Last(closed_spares)]
                    /\ closed_spares' = ButLast(closed_spares)
                    /\ UNCHANGED open_spares
            /\ ppc' = [ppc EXCEPT ![c] = "holding"]
            /\ UNCHANGED cvWaiters
    /\ UNCHANGED <<warm, phandle, phist>>
    /\ UNCHANGED exceptPool

\* ConnectionPool.Submit after its Acquire: conn.Submit(query), whose
\* worker connects on first use; the caller gets [conn, opobj].
PUse(c) ==
    /\ ppc[c] = "holding"
    /\ phandle[c] = NoHandle
    /\ warm' = [warm EXCEPT ![pconn[c]] = TRUE]
    /\ phandle' = [phandle EXCEPT ![c] = [conn |-> pconn[c], canceled |-> FALSE]]
    /\ UNCHANGED <<open_spares, closed_spares, cvWaiters, ppc, pconn, phist>>
    /\ UNCHANGED exceptPool

\* The test of Release (line 921).
KeepOpen(spares) == Len(spares) < MaxOpenUnused

\* A Release that appends the connection and notifies nobody.
ReleaseSilent(k, pcs) ==
    /\ IF KeepOpen(open_spares)
       THEN /\ open_spares' = Append(open_spares, k)
            /\ UNCHANGED <<closed_spares, warm>>
       ELSE /\ warm' = [warm EXCEPT ![k] = FALSE]
            /\ closed_spares' = Append(closed_spares, k)
            /\ UNCHANGED open_spares
    /\ ppc' = pcs
    /\ UNCHANGED cvWaiters
    /\ phist' = [phist EXCEPT
                   !.blocked = [d \in PoolCallers |-> FALSE],
                   !.lastRelease =
                       [full |-> Cardinality(WarmIdle) >= MaxOpenUnused,
                        closed |-> /\ closed_spares' = Append(closed_spares, k)
                                   /\ ~warm'[k]]]

\* Release(conn) by caller c, whose position afterwards is given by pcs:
\* the append (after conn.Close() when enough connections are kept open)
\* and _cv.notify(), which wakes the oldest waiter.
Release(k, pcs) ==
    /\ IF KeepOpen(open_spares)
       THEN /\ open_spares' = Append(open_spares, k)
            /\ UNCHANGED <<closed_spares, warm>>
       ELSE /\ warm' = [warm EXCEPT ![k] = FALSE]
            /\ closed_spares' = Append(closed_spares, k)
            /\ UNCHANGED open_spares
    /\ IF cvWaiters # <<>>
       THEN /\ cvWaiters' = Tail(cvWaiters)
            /\ ppc' = [pcs EXCEPT ![Head(cvWaiters)] = "woken"]
       ELSE /\ ppc' = pcs
            /\ UNCHANGED cvWaiters
    /\ phist' = [phist EXCEPT
                   !.blocked = [d \in PoolCallers |-> FALSE],
                   !.lastRelease =
                       [full |-> Cardinality(WarmIdle) >= MaxOpenUnused,
                        closed |-> /\ closed_spares' = Append(closed_spares, k)
                                   /\ ~warm'[k]]]

\* Release(conn) by the caller that holds conn, directly or as the last
\* step of ConnectionPool.Wait(op) (conn.Wait(opobj) has returned).
PRelease(c) ==
    /\ ppc[c] = "holding"
    /\ Release(pconn[c], [ppc EXCEPT ![c] = "idle"])
    /\ pconn' = [pconn EXCEPT ![c] = 0]
    /\ UNCHANGED phandle
    /\ UNCHANGED exceptPool

PoolNext ==
    \/ \E c \in PoolCallers : PAcquire(c)
    \/ \E c \in PoolCallers : PEnter(c)
    \/ \E c \in PoolCallers : PUse(c)
    \/ \E c \in PoolCallers : PRelease(c)

PoolInit == ConnectionInit /\ FanIdle /\ PoolStart /\ AuxIdle

PoolSpec == PoolInit /\ [][PoolNext]_vars

\* ConnectionPool.Wait(op) on a handle that was waited for before:
\* conn.Wait(opobj) returns at once, then self.Release(conn).
PWaitAgain(c) ==
    /\ ppc[c] = "idle"
    /\ phandle[c].conn # 0
    /\ Len(Spares) + Cardinality(CheckedOut) < MaxOpen + MaxExtraReleases
    /\ Release(phandle[c].conn, ppc)
    /\ UNCHANGED <<pconn, phandle>>
    /\ UNCHANGED exceptPool

\* ConnectionPool.Cancel(op): conn.Cancel(subop).  (ConnectionPool.TryWait
\* only reads the operation's latch.)
PCancel(c) ==
    /\ phandle[c].conn # 0
    /\ ~phandle[c].canceled
    /\ phandle' = [phandle EXCEPT ![c].canceled = TRUE]
    /\ UNCHANGED <<open_spares, closed_spares, cvWaiters, ppc, pconn, warm, phist>>
    /\ UNCHANGED exceptPool

\* The pool used through the handles of Submit, with no restriction on
\* the calls made on a handle.
PoolOpNext ==
    \/ PoolNext
    \/ \E c \in PoolCallers : PWaitAgain(c)
    \/ \E c \in PoolCallers : PCancel(c)

PoolOpSpec == PoolInit /\ [][PoolOpNext]_vars

\* C10: at most max_open connections are checked out, no connection is
\* held by two callers at once, and an Acquire issued while max_open
\* connections were checked out has not returned unless a Release
\* happened after it was issued.
C10_PoolBound ==
    /\ Cardinality(CheckedOut) <= MaxOpen
    /\ \A c, d \in CheckedOut : c # d => pconn[c] # pconn[d]
    /\ \A c \in CheckedOut : ~phist.blocked[c]

\* A caller whose Acquire was issued with every connection checked out
\* holds a connection now, and the pool is again fully checked out.
C10_Witness ==
    /\ Cardinality(CheckedOut) = MaxOpen
    /\ \E c \in CheckedOut : phist.issuedFull[c]

\* C11: the idle connections with an open backend handle never number
\* more than max_open_unused; a Release that finds max_open_unused warm
\* connections idle closes the released connection's handle before
\* putting it on closed_spares; no connection on closed_spares has an
\* open backend handle.
C11_WarmIdleBound ==
    /\ Cardinality(WarmIdle) <= MaxOpenUnused
    /\ \A i \in 1..Len(closed_spares) : ~warm[closed_spares[i]]
    /\ phist.lastRelease.full => phist.lastRelease.closed

\* C12: each connection is released exactly once per operation: no
\* connection appears twice across open_spares and closed_spares, and the
\* idle connections plus the connections bound to an operation that has
\* not been waited for number max_open.
C12_ReleasedOnce ==
    /\ \A i, j \in 1..Len(Spares) : i # j => Spares[i] # Spares[j]
    /\ Len(Spares) + Cardinality(CheckedOut) = MaxOpen

\* ============================================================ lookup cache

\* Cache._CACHE_TTL
CACHE_TTL == 60

\* time.time() when the Cache object is made: seconds since 1970.
StartTime == 1200000000

\* Seconds of clock followed after StartTime.
MaxElapsed == 122

\* The clock advances by one of these numbers of seconds.
TickSteps == {20, 61}

\* The values the looked-up source has over time.
LookupValues == {"v1", "v2"}

\* Cache.__init__ (lines 978-981); _last_lookup_value does not exist yet.
CacheStart ==
    /\ now = StartTime
    /\ last_lookup_time = 0
    /\ last_lookup_value = "unset"
    /\ backing \in LookupValues
    /\ chist = [lookedAt |-> 0,
                last |-> [at |-> 0, looked |-> FALSE, returned |-> "unset",
                          prevAt |-> 0, prevValue |-> "unset"]]

\* The test of line 984.
Expired == now - last_lookup_time > CACHE_TTL

\* Cache.__call__ (lines 983-986).  _last_lookup_time is assigned nowhere
\* but in __init__.
CacheCall ==
    /\ last_lookup_value' = IF Expired THEN backing ELSE last_lookup_value
    /\ chist' = [lookedAt |-> IF Expired THEN now ELSE chist.lookedAt,
                 last |-> [at |-> now, looked |-> Expired,
                           returned |-> last_lookup_value',
                           prevAt |-> chist.lookedAt,
                           prevValue |-> last_lookup_value]]
    /\ UNCHANGED <<now, last_lookup_time, backing>>
    /\ UNCHANGED exceptCache

\* Time passes.
CacheTick(d) ==
    /\ now + d <= StartTime + MaxElapsed
    /\ now' = now + d
    /\ UNCHANGED <<last_lookup_time, last_lookup_value, backing, chist>>
    /\ UNCHANGED exceptCache

\* The source changes: DNS answers differently, NumShards is altered.
CacheChange(v) ==
    /\ v # backing
    /\ backing' = v
    /\ UNCHANGED <<now, last_lookup_time, last_lookup_value, chist>>
    /\ UNCHANGED exceptCache

CacheNext ==
    \/ CacheCall
    \/ \E d \in TickSteps : CacheTick(d)
    \/ \E v \in LookupValues : CacheChange(v)

CacheInit ==
    /\ ConnectionInit /\ FanIdle /\ PoolIdle
    /\ CacheStart /\ ExpandIdle /\ TableIdle /\ InsertIdle /\ CachedIdle
    /\ ShardIdle

CacheSpec == CacheInit /\ [][CacheNext]_vars

\* C13: a cache looks up at most once per TTL window.  A call made no
\* later than 60 s after the previous lookup returns the stored value and
\* does not invoke _Lookup; a call made later than that looks up again.
C13_LookupOncePerTtl ==
    chist.last.prevAt # 0 =>
        IF chist.last.at <= chist.last.prevAt + CACHE_TTL
        THEN ~chist.last.looked /\ chist.last.returned = chist.last.prevValue
        ELSE chist.last.looked

\* ============================================================ descriptors

\* Longest host list, largest NumShards, and largest index of a range.
MaxShards == 4

\* The host parts of a dbspec that _GetExpander tells apart: 'h' (single),
\* 'h0,h1,...' (list of n hosts), 'h{a..b}' (range) and 'h#' (hash, n being
\* the NumShards that shard 0 reports).
Descriptors ==
    {[kind |-> "single", n |-> 1, a |-> 0, b |-> 0]}
    \cup {[kind |-> "list", n |-> n, a |-> 0, b |-> 0] : n \in 2..MaxShards}
    \cup {[kind |-> "range", n |-> 0, a |-> a, b |-> b] :
              a \in 0..MaxShards, b \in 0..MaxShards}
    \cup {[kind |-> "hash", n |-> n, a |-> 0, b |-> 0] : n \in 0..MaxShards}

\* _NoOpExpander._Lookup: {0: name}
NoOpLookup(d) == [x \in {0} |-> "h"]

\* _ListExpander._Lookup: dict(enumerate(name.split(',')))
ListLookup(d) == [x \in 0..(d.n - 1) |-> <<"h", x>>]

\* _RangeExpander._Lookup: for x in xrange(start, end + 1):
\* expansion[x] = name with the range replaced by str(x)
RangeLookup(d) == [x \in d.a..d.b |-> <<"h", x>>]

\* _HashExpander._Lookup: for x in xrange(NumShards):
\* expansion[x] = name.replace('#', str(x))
HashLookup(d) == [x \in 0..(d.n - 1) |-> <<"h", x>>]

\* _GetExpander(name, dbargs), then the expander's _Lookup().
Lookup(d) ==
    CASE d.kind = "hash" -> HashLookup(d)
      [] d.kind = "list" -> ListLookup(d)
      [] d.kind = "range" -> RangeLookup(d)
      [] OTHER -> NoOpLookup(d)

\* Slots of the hash table of a small dict in CPython 2.
DictMinSize == 8

\* Spec.__iter__: the specs in the order of self._expander().iteritems().
\* An int hashes to itself and the dict goes through its table slot by
\* slot, so keys below the table size come in the order of key mod size; a
\* single spec yields itself.
IterOrders(e) ==
    LET n == Cardinality(DOMAIN e)
    IN  {p \in [0..(n - 1) -> DOMAIN e] :
            \A i, j \in 0..(n - 1) :
                i < j => p[i] % DictMinSize < p[j] % DictMinSize}

\* Spec.__init__ (line 163) for the host part d.
EStart ==
    /\ descriptor \in Descriptors
    /\ expansion = <<>>
    /\ connections = <<>>
    /\ ephase = "parsed"

\* self._expander()
EExpand ==
    /\ ephase = "parsed"
    /\ expansion' = Lookup(descriptor)
    /\ ephase' = "expanded"
    /\ UNCHANGED <<descriptor, connections>>
    /\ UNCHANGED exceptExpand

\* MultiConnection.__init__: for i, spec in enumerate(self._dbargs):
\* self._connections[i] = (spec, spec.Connect())
EConnect ==
    /\ ephase = "expanded"
    /\ \E p \in IterOrders(expansion) :
           connections' = [i \in DOMAIN p |-> expansion[p[i]]]
    /\ ephase' = "connected"
    /\ UNCHANGED <<descriptor, expansion>>
    /\ UNCHANGED exceptExpand

ExpandNext == EExpand \/ EConnect

ExpandInit ==
    /\ ConnectionInit /\ FanIdle /\ PoolIdle
    /\ CacheIdle /\ EStart /\ TableIdle /\ InsertIdle /\ CachedIdle
    /\ ShardIdle

ExpandSpec == ExpandInit /\ [][ExpandNext]_vars

\* C14: a descriptor that expands to N shards gives a shard map with
\* exactly the keys 0..N-1, and MultiConnection makes exactly N workers
\* under those same keys.
C14_DenseShardKeys ==
    ephase \in {"expanded", "connected"} =>
        LET N == Cardinality(DOMAIN expansion)
        IN  /\ DOMAIN expansion = 0..(N - 1)
            /\ ephase = "connected" => DOMAIN connections = DOMAIN expansion

\* ============================================================ tables

\* VirtualTable objects alive in one behaviour.
NTables == 2

\* Rows a table refers to, and row objects made, in one behaviour.
MaxRows == 2

TableIds == 1..NTables

\* The names given to AddField; 'a' is a field of every table.
FieldNames == {"a", "host"}

\* Field counts of the rows given to Append.
RowLens == 1..3

Fields(t) == fieldheap[tables[t].fields]

Rows(t) == [i \in 1..Len(tables[t].rows) |-> rowheap[tables[t].rows[i]]]

\* VirtualTable(['a'], []) for each table, each with its own field list.
TStart ==
    /\ tables = [t \in TableIds |-> [fields |-> t, rows |-> <<>>]]
    /\ fieldheap = [t \in TableIds |-> <<"a">>]
    /\ rowheap = <<>>
    /\ thist = [table |-> 0, rejected |-> FALSE, changed |-> FALSE]

\* What an operation on table t leaves behind for the properties.
Observed(t, rejected) ==
    thist' = [table |-> t, rejected |-> rejected,
              changed |-> \/ fieldheap'[tables'[t].fields] # Fields(t)
                          \/ [i \in 1..Len(tables'[t].rows) |-> rowheap'[tables'[t].rows[i]]]
                                 # Rows(t)]

\* t = VirtualTable(u.GetFields(), []): self._fields = fields (line 224)
\* keeps the list object it is given.
TNewLike(t, u) ==
    /\ t # u
    /\ tables[t] # [fields |-> tables[u].fields, rows |-> <<>>]
    /\ tables' = [tables EXCEPT ![t] = [fields |-> tables[u].fields, rows |-> <<>>]]
    /\ thist' = [table |-> 0, rejected |-> FALSE, changed |-> FALSE]
    /\ UNCHANGED <<fieldheap, rowheap>>
    /\ UNCHANGED exceptTable

\* t.Append(row) with a new row of n cells (lines 259-265).
TAppend(t, n) ==
    /\ Len(rowheap) < MaxRows
    /\ Len(tables[t].rows) < MaxRows
    /\ IF n # Len(Fields(t))
       THEN UNCHANGED <<tables, rowheap>>
       ELSE /\ rowheap' = Append(rowheap, [i \in 1..n |-> "c"])
            /\ tables' = [tables EXCEPT ![t].rows = Append(@, Len(rowheap) + 1)]
    /\ UNCHANGED fieldheap
    /\ Observed(t, n # Len(Fields(t)))
    /\ UNCHANGED exceptTable

\* for row in self._result: row.append(value), from row i of rs on, over
\* the heap h.
RECURSIVE AppendCells(_, _, _)
AppendCells(i, rs, h) ==
    IF i > Len(rs) THEN h
    ELSE AppendCells(i + 1, rs, [h EXCEPT ![rs[i]] = Append(@, "v")])

\* t.AddField(name, value) (lines 267-275).
TAddField(t, name) ==
    /\ IF \E k \in 1..Len(Fields(t)) : Fields(t)[k] = name
       THEN UNCHANGED <<fieldheap, rowheap>>
       ELSE /\ fieldheap' = [fieldheap EXCEPT ![tables[t].fields] = Append(@, name)]
            /\ rowheap' = AppendCells(1, tables[t].rows, rowheap)
    /\ UNCHANGED tables
    /\ Observed(t, \E k \in 1..Len(Fields(t)) : Fields(t)[k] = name)
    /\ UNCHANGED exceptTable

\* t.Merge(u) (lines 350-355): self._result.extend(table.GetRows()).
TMerge(t, u) ==
    /\ Len(tables[t].rows) + Len(tables[u].rows) <= MaxRows
    /\ IF Fields(t) # Fields(u)
       THEN UNCHANGED tables
       ELSE tables' = [tables EXCEPT ![t].rows = @ \o tables[u].rows]
    /\ UNCHANGED <<fieldheap, rowheap>>
    /\ Observed(t, Fields(t) # Fields(u))
    /\ UNCHANGED exceptTable

TableNext ==
    \/ \E t, u \in TableIds : TNewLike(t, u)
    \/ \E t \in TableIds, n \in RowLens : TAppend(t, n)
    \/ \E t \in TableIds, name \in FieldNames : TAddField(t, name)
    \/ \E t, u \in TableIds : TMerge(t, u)

TableInit ==
    /\ ConnectionInit /\ FanIdle /\ PoolIdle
    /\ CacheIdle /\ ExpandIdle /\ TStart /\ InsertIdle /\ CachedIdle
    /\ ShardIdle

TableSpec == TableInit /\ [][TableNext]_vars

\* C15: every row of every table has as many cells as the table has
\* fields, after any construction, Append, AddField and Merge, also for a
\* table that was the argument of another table's Merge; and a rejected
\* Append, AddField or Merge leaves the table unchanged.
C15_RowsMatchFields ==
    /\ \A t \in TableIds : \A i \in 1..Len(Rows(t)) :
           Len(Rows(t)[i]) = Len(Fields(t))
    /\ thist.rejected => ~thist.changed

\* ============================================================ SQL dump

\* Rows of the dumped table.
MaxInsertRows == 3

\* Largest max_size argument.
MaxSize == 40

\* len(header) for 'INSERT INTO t (a) VALUES '.
HeaderLen == 25

\* len(values) of a row: '(1)' or '(12345)'.
ValuesLens == {3, 7}

\* The pieces of statement_parts.
Piece(tok, row) == [tok |-> tok, row |-> row]

Header == Piece("header", 0)

\* The loop of lines 319-339 from row i on: parts is statement_parts,
\* slen is statement_len, out the statements yielded so far.
RECURSIVE InsertLoop(_, _, _, _, _)
InsertLoop(i, args, parts, slen, out) ==
    IF i > Len(args.rows)
    THEN IF Len(parts) > 1
         THEN Append(out, Append(parts, Piece(";", 0)))
         ELSE out
    ELSE
    LET values == args.rows[i]
        flush == \/ Len(parts) > 1 /\ ~args.extended_insert
                 \/ args.max_size # 0 /\ slen + values >= args.max_size
        out1 == IF flush THEN Append(out, Append(parts, Piece(";", 0))) ELSE out
        parts1 == IF flush THEN <<Header>> ELSE parts
        slen1 == IF flush THEN HeaderLen ELSE slen
        parts2 == IF Len(parts1) > 1 THEN Append(parts1, Piece(",", 0)) ELSE parts1
    IN  InsertLoop(i + 1, args, Append(parts2, Piece("values", i)), slen1 + values, out1)

\* VirtualTable.GetInsertSQLList(table_name, max_size, extended_insert),
\* read to its end.
GetInsertSQLList(args) ==
    IF args.rows = <<>>
    THEN << <<Piece("comment", 0)>> >>
    ELSE InsertLoop(1, args, <<Header>>, 0, <<>>)

InsertInputs ==
    [rows : UNION {[1..n -> ValuesLens] : n \in 0..MaxInsertRows},
     max_size : 0..MaxSize,
     extended_insert : BOOLEAN]

NotCalled == << <<Piece("notcalled", 0)>> >>

GStart ==
    /\ insertArgs \in InsertInputs
    /\ statements = NotCalled

GCall ==
    /\ statements = NotCalled
    /\ statements' = GetInsertSQLList(insertArgs)
    /\ UNCHANGED insertArgs
    /\ UNCHANGED exceptInsert

InsertNext == GCall

InsertInit ==
    /\ ConnectionInit /\ FanIdle /\ PoolIdle
    /\ CacheIdle /\ ExpandIdle /\ TableIdle /\ GStart /\ CachedIdle
    /\ ShardIdle

InsertSpec == InsertInit /\ [][InsertNext]_vars

\* The rows a statement holds, in order.
RowsOf(st) ==
    LET vs == SelectSeq(st, LAMBDA piece : piece.tok = "values")
    IN  [k \in 1..Len(vs) |-> vs[k].row]

RECURSIVE Concat(_, _)
Concat(sts, k) == IF k > Len(sts) THEN <<>> ELSE RowsOf(sts[k]) \o Concat(sts, k + 1)

\* C16: for a non-empty table, any max_size >= 0 and either value of
\* extended_insert, the statements partition the rows into non-empty
\* consecutive chunks: every statement is an INSERT with at least one row,
\* every row is in exactly one statement, in table order, and without
\* extended_insert every statement has exactly one row.
C16_InsertsPartitionRows ==
    (statements # NotCalled /\ insertArgs.rows # <<>>) =>
        /\ \A k \in 1..Len(statements) :
               /\ statements[k][1] = Header
               /\ Len(RowsOf(statements[k])) >= 1
               /\ ~insertArgs.extended_insert => Len(RowsOf(statements[k])) = 1
        /\ Concat(statements, 1) = [i \in 1..Len(insertArgs.rows) |-> i]

\* ============================================================ result cache

\* No params argument (None or an empty dictionary).
NoParams == ""

\* _BaseConnection.Escape(value): "'%s'" % str(value).replace("'", "''")
Escape(value) ==
    CASE value = "1" -> "'1'" [] value = "2" -> "'2'" [] OTHER -> "''"

\* query %= dict(zip(params.keys(), map(self.Escape, params.values()))),
\* a query being its words and params the value of x.
Substitute(query, params) ==
    IF params = NoParams THEN query
    ELSE [i \in 1..Len(query) |->
             IF query[i] = "%(x)s" THEN Escape(params) ELSE query[i]]

\* The calls of CachedExecute: a template with two values of x, and the
\* text the first of them gives, written out.
CachedCalls ==
    { [query |-> <<"SELECT", "%(x)s">>, params |-> "1"],
      [query |-> <<"SELECT", "%(x)s">>, params |-> "2"],
      [query |-> <<"SELECT", "'1'">>, params |-> NoParams] }

PostQueries == {Substitute(c.query, c.params) : c \in CachedCalls}

NotCached == Table("NotCached", <<>>, <<>>)

\* What self.Execute(query) does when it is called: the backends' data
\* changes over time, and Execute can raise.
ExecResults ==
    { Returned(Table("Rows", <<"x">>, << <<1>> >>)),
      Returned(Table("Rows", <<"x">>, << <<2>> >>)),
      Raised("InconsistentResponses", NoneResult) }

\* _BaseConnection.__init__ (lines 403-406).
XStart ==
    /\ cache = [q \in PostQueries |-> NotCached]
    /\ closed = FALSE
    /\ xhist = [sinceClose |-> {},
                first |-> [q \in PostQueries |-> NotCached],
                last |-> [called |-> FALSE, q |-> <<>>, contacted |-> FALSE,
                          outcome |-> Returned(NotCached), fresh |-> FALSE,
                          firstBefore |-> NotCached, afterClose |-> FALSE]]

\* query in self._cache
InCache(q) == cache[q] # NotCached

\* CachedExecute(query, params) (lines 523-530); o is what Execute does
\* if it is called.
XCachedExecute(call, o) ==
    LET q == Substitute(call.query, call.params)
        contacted == ~InCache(q)
        answer == IF contacted THEN o ELSE Returned(cache[q])
    IN  /\ contacted \/ o = Returned(cache[q])
        /\ cache' = IF contacted /\ o.tag = "return"
                     THEN [cache EXCEPT ![q] = o.value]
                     ELSE cache
        /\ xhist' = [sinceClose |-> xhist.sinceClose \cup {q},
                     first |-> IF answer.tag = "return" /\ xhist.first[q] = NotCached
                               THEN [xhist.first EXCEPT ![q] = answer.value]
                               ELSE xhist.first,
                     last |-> [called |-> TRUE, q |-> q, contacted |-> contacted,
                               outcome |-> answer,
                               fresh |-> q \notin xhist.sinceClose,
                               firstBefore |-> xhist.first[q],
                               afterClose |-> closed]]
        /\ UNCHANGED closed
        /\ UNCHANGED exceptCached

\* What Close() leaves in _cache: it does not touch it.
CacheAfterCloseEmptied(c) == [q \in DOMAIN c |-> NotCached]

CacheAfterClose(c) == c

\* Close() (lines 545-552): self.Execute('exit'); self._closed = True.
XClose ==
    /\ cache' = CacheAfterClose(cache)
    /\ closed' = TRUE
    /\ xhist' = [xhist EXCEPT !.sinceClose = {}]
    /\ UNCHANGED exceptCached

CachedNext ==
    \/ \E call \in CachedCalls, o \in ExecResults \cup {Returned(NotCached)} :
           XCachedExecute(call, o)
    \/ XClose

CachedInit ==
    /\ ConnectionInit /\ FanIdle /\ PoolIdle
    /\ CacheIdle /\ ExpandIdle /\ TableIdle /\ InsertIdle /\ XStart
    /\ ShardIdle

CachedSpec == CachedInit /\ [][CachedNext]_vars

\* C17 (as claimed): CachedExecute contacts the backends exactly when the
\* post-substitution query has not been CachedExecuted since the
\* connection was created or last closed.
C17_CachedUntilClose ==
    xhist.last.called => (xhist.last.contacted <=> xhist.last.fresh)

\* C17 (amended): CachedExecute contacts the backends exactly when no
\* earlier CachedExecute of the same post-substitution query on this
\* object has returned, Close() or not; otherwise it returns the result
\* that the first such call returned.
C17_CachedOnceReturned ==
    xhist.last.called =>
        /\ xhist.last.contacted <=> xhist.last.firstBefore = NotCached
        /\ ~xhist.last.contacted =>
               xhist.last.outcome = Returned(xhist.last.firstBefore)

\* A CachedExecute made after Close() was answered from the cache, with
\* the result stored before the Close().
C17_Witness ==
    /\ xhist.last.called
    /\ xhist.last.afterClose
    /\ xhist.last.fresh
    /\ ~xhist.last.contacted

\* ===================================================== error handle policy

\* The worker has finished _Execute for o and not yet dequeued another op.
Completing(o) == wop = o /\ wpc \in {"hack", "clear", "setdone"}

\* o's query was sent, or _Execute returned for o before sending it.
Executed(o) ==
    \/ hist.raw[o] # NoWait
    \/ \E i \in 1..Len(hist.sentLog) : hist.sentLog[i] = o

\* _Execute went through "if not self._dbh" into resolution and connect.
Reconnected(o) ==
    \/ o \in hist.connFor
    \/ hist.raw[o] = QueryErrors(1, "resolution")

InConnectPhase(o) ==
    wop = o /\ wpc \in {"resolve", "connect", "onconnect_start", "onconnect_wait"}

\* o ended in a connection failure (lines 654-661) or in a driver error of
\* the query whose code is in fatal_errors (lines 690-694).
EndedClosing(o) ==
    /\ hist.raw[o].kind = "Errors"
    /\ LET row == hist.raw[o].rows[1] IN
          \/ row[2] \in {"connect", "interrupted"}
          \/ row[2] = "driver" /\ row[1] \in FatalErrors

\* o ended in a driver error of the query whose code is not in fatal_errors.
EndedNonFatal(o) ==
    /\ hist.raw[o].kind = "Errors"
    /\ LET row == hist.raw[o].rows[1] IN
          row[2] = "driver" /\ row[1] \notin FatalErrors

\* C18: after an operation that ended in a connection failure or a fatal
\* driver error the handle is closed and connection_info cleared, and the
\* next query reconnects before it runs; after one that ended in a non-fatal
\* driver error the handle is still open and the next query runs on it
\* without connecting.
C18_HandlePolicy ==
    \A o \in Ops :
        /\ EndedClosing(o) =>
              /\ Completing(o) => dbh = 0 /\ connection_info = 0
              /\ (o + 1 \in Ops /\ opKind[o + 1] = "query" /\ Executed(o + 1))
                    => Reconnected(o + 1)
        /\ EndedNonFatal(o) =>
              /\ Completing(o) => dbh # 0 /\ connection_info = dbh
              /\ (o + 1 \in Ops /\ opKind[o + 1] = "query")
                    => /\ ~InConnectPhase(o + 1)
                       /\ ~Reconnected(o + 1)

\* The first query ended in a fatal driver error, the second reconnected,
\* ended in a non-fatal driver error and is completing with the handle open.
C18_Witness ==
    /\ hist.raw[1] = QueryErrors(FatalCode, "driver")
    /\ 2 \in hist.connFor
    /\ hist.raw[2] = QueryErrors(NonFatalCode, "driver")
    /\ Completing(2)
    /\ dbh # 0

\* ======================================================= error table codes

\* The query of o raised an exception that is not a MySQLdb.Error (handler
\* of lines 696-698): the only way the worker reaches WRaise.
RaisedInQuery(o) == wop = o /\ wpc = "dead"

ErrorCode(result) == result.rows[1][1]

\* C19: a failed operation results in an Errors table of one (code, message)
\* row: the driver's code when it supplied one, 1 for a resolution failure,
\* 3 for a non-driver failure while connecting, 4 for a non-driver exception
\* while executing the query; code 2 only for canceled operations.
C19_ErrorTableCodes ==
    \A o \in Ops :
        (opKind[o] = "query" /\ opNotified[o]) =>
            /\ opResult[o].kind = "Errors" =>
                  /\ Len(opResult[o].rows) = 1
                  /\ Len(opResult[o].rows[1]) = 2
                  /\ ErrorCode(opResult[o]) = 2 => opCanceled[o]
            /\ hist.raw[o].kind = "Errors" =>
                  /\ opResult[o] = hist.raw[o]
                  /\ hist.raw[o].rows[1][2] = "resolution"
                        => ErrorCode(opResult[o]) = 1
                  /\ hist.raw[o].rows[1][2] = "driver"
                        => ErrorCode(opResult[o]) \in
                              {FatalCode, NonFatalCode, InterruptedCode}
            /\ RaisedInQuery(o) =>
                  /\ opResult[o].kind = "Errors"
                  /\ ErrorCode(opResult[o]) = 4

\* ================================================== cancel and the worker

\* Cancel(op) is inside "while not op.TryWait()" (lines 769-781), holding
\* in_progress_lock.
KillLoop == cpc \in {"loop", "info", "kill"}

\* The worker is between "self.in_progress = op" and op.SetDone(result) for
\* the query operation o (lines 625-637).
ExecutingQuery(o) ==
    /\ wop = o
    /\ wpc \in {"release", "iscanceled", "resolve", "connect",
                 "onconnect_start", "onconnect_wait", "query_start",
                 "query_wait", "hack", "clear", "setdone"}

\* The worker is handling the sentinel operation o (lines 612-620).
ExecutingSentinel(o) == wop = o /\ wpc \in {"ctl_close", "ctl_done"}

\* The worker assigns in_progress in this step.
WritesInProgress == in_progress' # in_progress

\* C20 (as claimed): while Cancel(op) is in its kill loop the worker
\* executes no operation other than op and the backend runs no statement
\* of another operation, and the worker holds in_progress_lock at each of
\* its writes to in_progress.
C20_KillLoopExclusive ==
    /\ [](KillLoop =>
            /\ \A o \in Ops \ {cop} :
                   ~ExecutingQuery(o) /\ ~ExecutingSentinel(o)
            /\ running => wop = cop)
    /\ [][WritesInProgress => in_progress_lock = "worker"]_vars

\* C20 (amended): while Cancel(op) is in its kill loop the worker executes
\* no query operation other than op and the backend runs no statement of
\* another operation; the worker holds in_progress_lock when it writes
\* in_progress = op, and does not hold it when it writes in_progress = None.
C20_KillLoopExcludesQueries ==
    /\ [](KillLoop =>
            /\ \A o \in Ops \ {cop} : ~ExecutingQuery(o)
            /\ running => wop = cop)
    /\ [][WritesInProgress =>
             IF in_progress' # 0 THEN in_progress_lock = "worker"
                                 ELSE in_progress_lock # "worker"]_vars

\* A KILL QUERY has interrupted op's query, Cancel(op) is still in its
\* loop, and the worker waits for the lock with the next query operation.
C20_Witness ==
    /\ KillLoop
    /\ hist.interruptedIn[cop] # "no"
    /\ wop # cop
    /\ wpc = "acquire"
    /\ opKind[wop] = "query"

\* ===================================================== cancel terminates

\* C21: a Cancel(op) that has been entered returns, whether or not a KILL
\* QUERY gets through and whether or not connection_info is there; and while
\* Cancel(op) is in its loop and op is not complete, the worker is at a step
\* of op that it can take without the lock.
C21_CancelTerminates ==
    /\ (cpc # "idle") ~> (cpc = "idle")
    /\ []((KillLoop /\ ~opNotified[cop]) =>
             /\ wop = cop
             /\ ENABLED Worker)

\* Cancel(op) is about to leave its loop: op's query was never interrupted
\* and returned its rows while Cancel held the lock.
C21_Witness ==
    /\ cpc = "loop"
    /\ opNotified[cop]
    /\ hist.interruptedIn[cop] = "no"
    /\ opResult[cop].kind = "Rows"
    /\ in_progress_lock = "cancel"

\* ===================================================== what Cancel leaves

\* Cancel(op) returns in this step: from "if in_progress != op: return" or
\* from the end of the loop.
CancelReturns == cpc \in {"check", "loop"} /\ cpc' = "idle"

\* o has completed, or the worker has not yet published it and it is marked
\* canceled.
DoneOrQueuedCanceled(o) ==
    \/ opNotified[o]
    \/ NotYetPublished(o) /\ opCanceled[o]

\* The worker has reset in_progress after o's query (line 635) and has not
\* yet run op.SetDone(result) (line 637).
BetweenClearAndSetDone(o) == wop = o /\ wpc = "setdone"

\* C22 (as claimed): when Cancel(op) returns, op has completed or is not yet
\* dispatched and marked canceled.
C22_DoneOrQueued ==
    [][CancelReturns => DoneOrQueuedCanceled(cop)]_vars

\* C22 (amended): when Cancel(op) returns, op has completed, or is not yet
\* published and marked canceled, or the worker is past op's query, between
\* in_progress = None and SetDone, or op is a sentinel the worker is
\* handling; no statement of op is running or still to be sent.
C22_DoneQueuedOrFinishing ==
    [][CancelReturns =>
          /\ \/ DoneOrQueuedCanceled(cop)
             \/ BetweenClearAndSetDone(cop)
             \/ ExecutingSentinel(cop)
          /\ ~(wop = cop /\ running)
          /\ opCanceled[cop]]_vars

\* Cancel(op) has returned while the worker was between the reset of
\* in_progress and SetDone: op is marked canceled, not complete, not queued.
C22_Witness ==
    /\ cpc = "idle"
    /\ ncancel = 1
    /\ \E o \in Ops :
          /\ opCanceled[o]
          /\ ~opNotified[o]
          /\ BetweenClearAndSetDone(o)

\* ========================================================= shard workers

\* Most shards of a MultiConnection, and most handles one worker opens.
MaxWorkers == 2

MaxConnects == 2

\* The host parts that make a MultiConnection with some shards.
ShardDescriptors ==
    {d \in Descriptors :
        /\ d.kind # "single"
        /\ Cardinality(DOMAIN Lookup(d)) \in 1..MaxWorkers}

\* The db part of the dbspec: 'dbname', 'dbname#', or 'd0,d1,...' with one
\* name per shard.
DbForms == {"plain", "hash", "list"}

\* The caller's execute_on_connect.
HookLists == { <<>>, << <<"hook", 1>>, <<"hook", 2>> >> }

MultiArgs ==
    [host : ShardDescriptors, db : DbForms, execute_on_connect : HookLists]

NoIndex == 0 - 1

\* Spec.__iter__, lines 176-179: the db of the spec yielded for the key
\* shard, as the index that went into it; split(',')[shard] raises
\* IndexError past the end of the list.
DbFor(form, n, shard) ==
    CASE form = "list" -> IF shard < n THEN [raises |-> FALSE, index |-> shard]
                                       ELSE [raises |-> TRUE, index |-> NoIndex]
      [] form = "hash" -> [raises |-> FALSE, index |-> shard]
      [] OTHER -> [raises |-> FALSE, index |-> NoIndex]

SetShard(i) == <<"SET @shard", i>>

\* A MultiConnection that puts its own statement first.
OnConnectPrepended(hooks, i) == <<SetShard(i)>> \o hooks

\* spec.get('execute_on_connect', []) + ['SET @shard=%d' % i]  (line 797)
OnConnect(hooks, i) == hooks \o <<SetShard(i)>>

UserQuery == <<"user">>

\* Spec.__init__ for the kwargs of the MultiConnection.
MStart ==
    /\ multiArgs \in MultiArgs
    /\ mphase = "new"
    /\ shardConns = <<>>
    /\ shardDbh = <<>>
    /\ shardPos = <<>>
    /\ shardSent = <<>>
    /\ shardNconn = <<>>

\* MultiConnection.__init__ (lines 790-799): for i, spec in
\* enumerate(self._dbargs), p being the order in which Spec.__iter__ goes
\* through the shard map.
MBuild ==
    /\ mphase = "new"
    /\ LET e == Lookup(multiArgs.host)
           n == Cardinality(DOMAIN e)
       IN \E p \in IterOrders(e) :
            IF \E i \in DOMAIN p : DbFor(multiArgs.db, n, p[i]).raises
            THEN /\ mphase' = "raised"
                 /\ UNCHANGED <<shardConns, shardDbh, shardPos, shardSent,
                                shardNconn>>
            ELSE /\ mphase' = "built"
                 /\ shardConns' =
                      [i \in DOMAIN p |->
                          [key |-> p[i],
                           host |-> e[p[i]],
                           db |-> DbFor(multiArgs.db, n, p[i]).index,
                           execute_on_connect |->
                               OnConnect(multiArgs.execute_on_connect, i)]]
                 /\ shardDbh' = [i \in DOMAIN p |-> 0]
                 /\ shardPos' = [i \in DOMAIN p |-> 0]
                 /\ shardSent' = [i \in DOMAIN p |-> <<>>]
                 /\ shardNconn' = [i \in DOMAIN p |-> 0]
    /\ UNCHANGED multiArgs
    /\ UNCHANGED exceptShard

\* The worker of shard i runs _Execute without a handle: _Connect opens one
\* (lines 713-718) and is at the head of _execute_on_connect.
MConnect(i) ==
    /\ mphase = "built"
    /\ shardDbh[i] = 0
    /\ shardNconn[i] < MaxConnects
    /\ shardNconn' = [shardNconn EXCEPT ![i] = @ + 1]
    /\ shardDbh' = [shardDbh EXCEPT ![i] = shardNconn[i] + 1]
    /\ shardPos' = [shardPos EXCEPT ![i] = 1]
    /\ shardSent' = [shardSent EXCEPT ![i] = <<>>]
    /\ UNCHANGED <<multiArgs, mphase, shardConns>>
    /\ UNCHANGED exceptShard

\* _QueryConsumer._Close(), lines 723-728, on the worker of shard i.
MClosed(i) ==
    /\ shardDbh' = [shardDbh EXCEPT ![i] = 0]
    /\ shardPos' = [shardPos EXCEPT ![i] = 0]

\* for init_query in self._execute_on_connect: self._dbh.query(init_query)
\* (lines 719-721): the statement is sent; when it fails, the handler of
\* lines 654-661 closes the handle.
MOnConnect(i) ==
    /\ mphase = "built"
    /\ shardDbh[i] # 0
    /\ shardPos[i] \in 1..Len(shardConns[i].execute_on_connect)
    /\ shardSent' = [shardSent EXCEPT
                        ![i] = Append(@, shardConns[i].execute_on_connect[shardPos[i]])]
    /\ \/ shardPos' = [shardPos EXCEPT ![i] = @ + 1] /\ UNCHANGED shardDbh
       \/ MClosed(i)
    /\ UNCHANGED <<multiArgs, mphase, shardConns, shardNconn>>
    /\ UNCHANGED exceptShard

\* self._dbh.query(query), line 664: the first user query on the handle.
MQuery(i) ==
    /\ mphase = "built"
    /\ shardDbh[i] # 0
    /\ shardPos[i] = Len(shardConns[i].execute_on_connect) + 1
    /\ UserQuery \notin {shardSent[i][k] : k \in 1..Len(shardSent[i])}
    /\ shardSent' = [shardSent EXCEPT ![i] = Append(@, UserQuery)]
    /\ UNCHANGED <<multiArgs, mphase, shardConns, shardDbh, shardPos, shardNconn>>
    /\ UNCHANGED exceptShard

\* The handle is closed after a query: a fatal driver error (lines 693-694)
\* or an 'exit' (lines 612-615).
MClose(i) ==
    /\ mphase = "built"
    /\ shardDbh[i] # 0
    /\ shardPos[i] = Len(shardConns[i].execute_on_connect) + 1
    /\ MClosed(i)
    /\ UNCHANGED <<multiArgs, mphase, shardConns, shardSent, shardNconn>>
    /\ UNCHANGED exceptShard

ShardNext ==
    \/ MBuild
    \/ \E i \in DOMAIN shardConns : MConnect(i)
    \/ \E i \in DOMAIN shardConns : MOnConnect(i)
    \/ \E i \in DOMAIN shardConns : MQuery(i)
    \/ \E i \in DOMAIN shardConns : MClose(i)

ShardInit ==
    /\ ConnectionInit /\ FanIdle /\ PoolIdle
    /\ CacheIdle /\ ExpandIdle /\ TableIdle /\ InsertIdle /\ CachedIdle
    /\ MStart

ShardSpec == ShardInit /\ [][ShardNext]_vars

IsPrefix(s, t) == Len(s) <= Len(t) /\ s = SubSeq(t, 1, Len(s))

\* C23 (as claimed): what a shard worker has sent on a handle is the start
\* of: 'SET @shard=<i>', the caller's on-connect statements in list order,
\* then user queries.
C23_SetShardFirst ==
    mphase = "built" =>
        \A i \in DOMAIN shardConns :
            IsPrefix(shardSent[i],
                     <<SetShard(i)>> \o multiArgs.execute_on_connect
                         \o <<UserQuery>>)

\* C23 (amended): what a shard worker has sent on a handle is the start of:
\* the caller's on-connect statements in list order, 'SET @shard=<i>' with
\* i the key of the worker in _connections, then user queries.
C23_SetShardLast ==
    mphase = "built" =>
        \A i \in DOMAIN shardConns :
            IsPrefix(shardSent[i],
                     multiArgs.execute_on_connect \o <<SetShard(i)>>
                         \o <<UserQuery>>)

\* A worker on its second handle has sent two caller statements, its SET
\* @shard and a user query.
C23_Witness ==
    /\ mphase = "built"
    /\ \E i \in DOMAIN shardConns :
          /\ shardNconn[i] = 2
          /\ Len(multiArgs.execute_on_connect) = 2
          /\ Len(shardSent[i]) = 4
          /\ shardSent[i][4] = UserQuery

\* The index in the worker's 'SET @shard=<i>' statement.
SetIndex(c) == c.execute_on_connect[Len(c.execute_on_connect)][2]

\* C24: for every shard of a MultiConnection, the key of the shard in the
\* Expander's shard map, the index that went into its db, the index of its
\* 'SET @shard=<i>' and the key of _connections by which 'ON SHARD <i>'
\* selects it are one and the same.
C24_OneShardIndex ==
    mphase = "built" =>
        \A i \in DOMAIN shardConns :
            LET c == shardConns[i]
            IN  /\ c.key = i
                /\ SetIndex(c) = c.key
                /\ c.db # NoIndex => c.db = i

\* ==================================================== MultiExecute's map

\* C25: the map MultiConnection.Wait returns holds exactly one entry per
\* selected shard, and each selected shard's result is in it under the
\* shard's host, also when two shards have the same host string.
C25_OneEntryPerShard ==
    fphase \in {"waited", "done"} =>
        /\ Len(results) = Len(ops)
        /\ \A i \in 1..Len(ops) :
              \E j \in 1..Len(results) :
                  /\ results[j].name = ops[i].name
                  /\ results[j].result = reply[ops[i].shard]

\* ======================================================== pool wakeups

\* The pool used through Acquire() and Release(conn) alone.
PoolAcquireNext ==
    \/ \E c \in PoolCallers : PAcquire(c)
    \/ \E c \in PoolCallers : PEnter(c)
    \/ \E c \in PoolCallers : PRelease(c)

\* Every caller thread inside Acquire gets to run (it takes _cv and tests
\* the lists), and every checked-out connection is released.  Nothing makes
\* a caller call Acquire, and _cv is handed to whichever thread asks first.
PoolFairSpec ==
    /\ PoolInit
    /\ [][PoolAcquireNext]_vars
    /\ \A c \in PoolCallers : WF_vars(PEnter(c)) /\ WF_vars(PRelease(c))

\* Caller c is inside Acquire and has not returned from it.
InAcquire(c) == ppc[c] \in {"enter", "waiting", "woken"}

\* Caller c sleeps in _cv.wait() while a connection is idle.
AsleepBesideIdle(c) == ppc[c] = "waiting" /\ Spares # <<>>

\* C26 (as claimed): every Acquire eventually returns, and no caller stays
\* asleep in Acquire forever while a connection is idle.
C26_EveryAcquireReturns ==
    \A c \in PoolCallers :
        /\ InAcquire(c) ~> (ppc[c] = "holding")
        /\ AsleepBesideIdle(c) ~> ~AsleepBesideIdle(c)

\* C26 (amended): no caller stays asleep in Acquire forever while a
\* connection is idle, a caller asleep beside an idle connection always has
\* a notified caller on its way to the lists, and whenever some caller is
\* inside Acquire some Acquire eventually returns.
C26_NoLostWakeup ==
    /\ \A c \in PoolCallers : AsleepBesideIdle(c) ~> ~AsleepBesideIdle(c)
    /\ []((cvWaiters # <<>> /\ Spares # <<>>) =>
             \E d \in PoolCallers : ppc[d] = "woken")
    /\ (\E c \in PoolCallers : InAcquire(c))
          ~> (\E c \in PoolCallers : ppc[c] = "holding")

\* A caller whose Acquire found every connection checked out has been
\* notified by a Release and the released connection is still idle.
C26_Witness ==
    \E c \in PoolCallers :
        /\ ppc[c] = "woken"
        /\ phist.issuedFull[c]
        /\ Spares # <<>>

====
